---- MODULE Spec2Model ----
(***************************************************************************)
(* Model of analyzer.py: the experiment driver (analyze_fen), the game     *)
(* simulator (run_game), the move generator (MoveGenerator.get_move,       *)
(* out_of_master_book), the retrying lookup (get_db_moves) and the two     *)
(* selection strategies (pick_top, pick_random).                           *)
(*                                                                         *)
(* The opening database (requests.get) and the rules engine (chess.Board)  *)
(* are the program's environment.  Every HTTP response is an input: it is  *)
(* drawn from Responses each time a request is made.  A board is the       *)
(* triple python-chess keeps for what the program reads of it: the side to *)
(* move, the full-move number and the stack of moves pushed.               *)
(***************************************************************************)
EXTENDS Integers, Sequences, FiniteSets, TLC

VARIABLES
    pc,                      \* the statement the single thread is at
    wellFormed,              \* the database client of this run always answers
    num_games,               \* analyze_fen: --num-games
    final_fen,               \* analyze_fen: the starting position
    depths,                  \* analyze_fen: the samples collected
    out,                     \* what print() has written
    err,                     \* the exception in flight or that ended the run
    aborted,                 \* the driver loop was left by break
    board,                   \* run_game: the position
    game_score,              \* run_game: one line per full move
    white_move,              \* run_game: SAN of White's last move
    player_to_move,          \* run_game: 0 or 1
    player_move_generators,  \* run_game: the two generators, by index
    move_generator,          \* run_game: the generator invoked last
    last_generator,          \* the generator this game invoked before it
    budget_used,             \* a lookup of this game returned after 10 sleeps
    lookup,                  \* get_db_moves' caller: "guard" or "fetch"
    request_generator,       \* get_db_moves: the endpoint asked
    retries,                 \* get_db_moves: the retry counter
    requests,                \* requests.get calls made by this get_db_moves call
    sleeps,                  \* time.sleep calls made by this get_db_moves call
    last_response,           \* kind of the response the last request received
    master_report,           \* <<count>> once out_of_master_book has summed
    candidate_report,        \* <<explorer_moves>> once get_move has fetched
    result                   \* how the last get_move call ended

vars == <<pc, wellFormed, num_games, final_fen, depths, out, err, aborted,
          board, game_score, white_move, player_to_move,
          player_move_generators, move_generator, last_generator,
          budget_used, lookup,
          request_generator, retries, requests, sleeps, last_response,
          master_report, candidate_report, result>>

driverVars == <<num_games, final_fen, depths, out, aborted, wellFormed>>
gameVars == <<board, game_score, white_move, player_to_move,
              player_move_generators, last_generator, budget_used>>
lookupVars == <<lookup, request_generator, retries, requests, sleeps,
                last_response>>
reportVars == <<master_report, candidate_report>>

----------------------------------------------------------------------------
(* Bounds of the model *)

\* The book is finite: from this many pushed moves on, the master database
\* reports fewer than min_count games.
MaxPly == 2

\* The largest --num-games tried.
MaxNumGames == 2

----------------------------------------------------------------------------
(* Program constants *)

min_count == 5
MaxRetries == 10

WHITE == TRUE
BLACK == FALSE

----------------------------------------------------------------------------
(* Moves: UCI text, chess.Move, SAN *)

FILE_NAMES == <<"a", "b", "c", "d", "e", "f", "g", "h">>
RANK_NAMES == <<"1", "2", "3", "4", "5", "6", "7", "8">>

IndexOf(names, c) == (CHOOSE i \in 1..Len(names) : names[i] = c) - 1

\* chess.parse_square: file + 8 * rank, both counted from 0.
ParseSquare(f, r) == IndexOf(FILE_NAMES, f) + 8 * IndexOf(RANK_NAMES, r)

\* chess.Move.from_uci on a four-character UCI string.
FromUci(uci) ==
    [from_square |-> ParseSquare(uci[1], uci[2]),
     to_square   |-> ParseSquare(uci[3], uci[4])]

\* board.san(move): the rules engine's text for the move; it names the
\* destination square and depends on the side that moves.
San(b, move) == <<IF b.turn = WHITE THEN "w" ELSE "b", move.to_square>>

\* white_move = "  "
BlankSan == <<" ", " ">>

NoMove == [from_square |-> -1, to_square |-> -1]

----------------------------------------------------------------------------
(* The opening database *)

Cand(u, w, b, d) == [uci |-> u, white |-> w, black |-> b, draws |-> d]

UciA == <<"e", "7", "e", "5">>
UciB == <<"g", "1", "f", "3">>

\* The `moves` lists a parseable response may carry.
MoveLists ==
    { <<>>,
      << Cand(UciA, 3, 2, 1) >>,
      << Cand(UciA, 1, 1, 0), Cand(UciB, 1, 0, 0) >>,
      << Cand(UciB, 0, 0, 0), Cand(UciA, 2, 2, 1) >>,
      << Cand(UciA, 0, 0, 0) >> }

\* What requests.get may answer: a JSON object with a `moves` list, a body
\* that is not JSON, or a JSON object without `moves`.
Responses ==
    [kind : {"ok"}, moves : MoveLists]
        \cup { [kind |-> "not_json", moves |-> <<>>],
               [kind |-> "no_moves", moves |-> <<>>] }

\* exp_move["white"] + exp_move["black"] + exp_move["draws"]
MoveCount(exp_move) == exp_move.white + exp_move.black + exp_move.draws

RECURSIVE TotalCount(_)
TotalCount(exp_moves) ==
    IF exp_moves = <<>> THEN 0
    ELSE MoveCount(Head(exp_moves)) + TotalCount(Tail(exp_moves))

----------------------------------------------------------------------------
(* Selection strategies *)

Returns(exp_move) == [raised |-> "", chosen |-> exp_move]
Raises(name) == [raised |-> name, chosen |-> Cand(<<>>, 0, 0, 0)]

\* The last element instead of the first.
pick_last(exp_moves) == exp_moves[Len(exp_moves)]

\* pick_top: exp_moves[0]
pick_top(exp_moves) == exp_moves[1]

\* itertools.accumulate(weights), entry i (from 1)
RECURSIVE CumWeight(_, _)
CumWeight(exp_moves, i) ==
    IF i = 0 THEN 0
    ELSE CumWeight(exp_moves, i - 1) + MoveCount(exp_moves[i])

\* The bisection to the left: the count of the first hi entries that are
\* < x.
BisectLeft(exp_moves, x, hi) ==
    Cardinality({i \in 1..hi : CumWeight(exp_moves, i) < x})

\* bisect.bisect(cum_weights, x, 0, hi): the count of the first hi entries
\* that are <= x (cum_weights is non-decreasing).
Bisect(exp_moves, x, hi) ==
    Cardinality({i \in 1..hi : CumWeight(exp_moves, i) <= x})

\* pick_random: random.choices(moves, weights=counts)[0].  random() * total
\* is a real in [0, total); the cumulative weights are integers, so the
\* bisection of x and of its integer part agree and x ranges over
\* 0..total-1.  With a total of zero random.choices raises ValueError from
\* Python 3.9 on and returns the last element before: both outcomes are
\* kept.
pick_random(exp_moves) ==
    LET n == Len(exp_moves)
        total == CumWeight(exp_moves, n)
    IN  IF total <= 0
        THEN {Raises("ValueError"),
              Returns(exp_moves[Bisect(exp_moves, 0, n - 1) + 1])}
        ELSE {Returns(exp_moves[Bisect(exp_moves, x, n - 1) + 1]) :
                  x \in 0..(total - 1)}

\* self.selection_strategy(explorer_moves)
Select(strategy, exp_moves) ==
    IF strategy = "pick_top" THEN {Returns(pick_top(exp_moves))}
    ELSE pick_random(exp_moves)

----------------------------------------------------------------------------
(* Move generators *)

\* MoveGenerator(master_db_request, pick_top)
book_move_generator ==
    [db_request_generator |-> "master_db_request",
     selection_strategy   |-> "pick_top"]

\* MoveGenerator(LichessDbRequest(db_speed, db_rating), pick_random)
lichess_move_generator ==
    [db_request_generator |-> "LichessDbRequest",
     selection_strategy   |-> "pick_random"]

NoGenerator == [db_request_generator |-> "", selection_strategy |-> ""]

\* out_of_master_book: count < min_count
OutOfMasterBook(count) == count < min_count

\* The retry test off by one: retries <= 10.
MayRetryOffByOne(r) == r <= MaxRetries

\* get_db_moves: if retries < 10
MayRetry(r) == r < MaxRetries

\* The except clause catching every exception of the request.
CatchesEveryException(kind) == kind # "ok"

\* get_db_moves: except json.decoder.JSONDecodeError
IsJSONDecodeError(kind) == kind = "not_json"

----------------------------------------------------------------------------
(* The board *)

\* The starting positions: the standard one, and the two kinds of fens_dict.
StartFens ==
    { [turn |-> WHITE, fullmove_number |-> 1],
      [turn |-> WHITE, fullmove_number |-> 2],
      [turn |-> BLACK, fullmove_number |-> 3] }

\* chess.Board(FEN)
Board(fen) ==
    [turn |-> fen.turn, fullmove_number |-> fen.fullmove_number,
     move_stack |-> <<>>]

\* board.push(move): the full-move number grows after Black's move, the
\* turn passes to the other side.
Push(b, move) ==
    [turn |-> ~b.turn,
     fullmove_number |->
         IF b.turn = BLACK THEN b.fullmove_number + 1 ELSE b.fullmove_number,
     move_stack |-> Append(b.move_stack, move)]

NoBoard == [turn |-> WHITE, fullmove_number |-> 0, move_stack |-> <<>>]

\* The index of the first player taken as 0 whatever the side to move.
AlwaysPlayerZero(turn) == 0

\* run_game: player_to_move at the start
InitialPlayerToMove(turn) == IF turn = WHITE THEN 0 ELSE 1

\* The generators bound without looking at the side to move.
GeneratorsIgnoringTurn(turn) ==
    <<lichess_move_generator, book_move_generator>>

\* run_game: player_move_generators at the start
InitialGenerators(turn) ==
    IF turn = WHITE
    THEN <<lichess_move_generator, book_move_generator>>
    ELSE <<book_move_generator, lichess_move_generator>>

\* The depth without the offset.
DepthWithoutOffset(b) == b.fullmove_number

\* analyze_fen: board.fullmove_number - 1
Depth(b) == b.fullmove_number - 1

\* The loop test off by one: len(depths) <= num_games.
LoopTestOffByOne(d, n) == Len(d) <= n

\* analyze_fen: len(depths) < num_games
LoopTest(d, n) == Len(d) < n

RECURSIVE Sum(_)
Sum(d) == IF d = <<>> THEN 0 ELSE Head(d) + Sum(Tail(d))

RECURSIVE Gcd(_, _)
Gcd(a, b) == IF b = 0 THEN a ELSE Gcd(b, a % b)

\* sum(depths) / len(depths): true division, kept as a fraction in lowest
\* terms; only called with a non-zero length.
Mean(d) ==
    LET g == Gcd(Sum(d), Len(d))
    IN  [num |-> Sum(d) \div g, den |-> Len(d) \div g]

----------------------------------------------------------------------------
(* The environment *)

\* The responses the database client may give to the request being made.
\* A well-formed client answers every lookup within the retry budget, with
\* a `moves` list whose candidates have been played (a non-empty list has a
\* positive total).  The book is finite: at MaxPly pushed moves the master
\* database has fewer than min_count games.
ClientMayAnswer(resp) ==
    /\ wellFormed =>
           \/ /\ resp.kind = "ok"
              /\ (resp.moves = <<>> \/ TotalCount(resp.moves) > 0)
           \/ /\ resp.kind = "not_json"
              /\ retries < MaxRetries
    /\ ( /\ request_generator = "master_db_request"
         /\ resp.kind = "ok"
         /\ Len(board.move_stack) >= MaxPly )
           => TotalCount(resp.moves) < min_count

NoResult == [kind |-> "none", move |-> NoMove]
Failed(name) == [kind |-> name, move |-> NoMove]

----------------------------------------------------------------------------
(* Initial state: analyze_fen has read its options, depths = [] *)

Init ==
    /\ pc = "while"
    /\ wellFormed \in BOOLEAN
    /\ num_games \in -1..MaxNumGames
    /\ final_fen \in StartFens
    /\ depths = <<>>
    /\ out = <<>>
    /\ err = ""
    /\ aborted = FALSE
    /\ board = NoBoard
    /\ game_score = <<>>
    /\ white_move = BlankSan
    /\ player_to_move = 0
    /\ player_move_generators = <<NoGenerator, NoGenerator>>
    /\ last_generator = NoGenerator
    /\ budget_used = FALSE
    /\ move_generator = NoGenerator
    /\ lookup = ""
    /\ request_generator = ""
    /\ retries = 0
    /\ requests = 0
    /\ sleeps = 0
    /\ last_response = ""
    /\ master_report = <<>>
    /\ candidate_report = <<>>
    /\ result = NoResult

----------------------------------------------------------------------------
(* analyze_fen *)

\* while len(depths) < num_games:
WhileTest ==
    /\ pc = "while"
    /\ pc' = IF LoopTest(depths, num_games) THEN "run_game" ELSE "report"
    /\ UNCHANGED <<driverVars, err, gameVars, move_generator, lookupVars,
                   reportVars, result>>

\* depths.append(board.fullmove_number - 1), with the board run_game
\* returned
AppendDepth ==
    /\ pc = "append"
    /\ depths' = Append(depths, Depth(board))
    /\ pc' = "while"
    /\ UNCHANGED <<wellFormed, num_games, final_fen, out, aborted, err,
                   gameVars, move_generator, lookupVars, reportVars, result>>

\* The handler going on with the loop (continue) instead of leaving it.
ExceptContinue ==
    /\ pc = "except"
    /\ pc' = "while"
    /\ UNCHANGED <<driverVars, err, gameVars, move_generator, lookupVars,
                   reportVars, result>>

\* except: logging.exception("Something went wrong."); break
ExceptBreak ==
    /\ pc = "except"
    /\ aborted' = TRUE
    /\ pc' = "report"
    /\ UNCHANGED <<wellFormed, num_games, final_fen, depths, out, err,
                   gameVars, move_generator, lookupVars, reportVars, result>>

\* print(depths)
PrintDepths ==
    /\ pc = "report"
    /\ out' = Append(out, depths)
    /\ pc' = "mean"
    /\ UNCHANGED <<wellFormed, num_games, final_fen, depths, aborted, err,
                   gameVars, move_generator, lookupVars, reportVars, result>>

\* print(sum(depths) / len(depths)) with samples
PrintMean ==
    /\ pc = "mean"
    /\ Len(depths) # 0
    /\ out' = Append(out, Mean(depths))
    /\ pc' = "done"
    /\ UNCHANGED <<wellFormed, num_games, final_fen, depths, aborted, err,
                   gameVars, move_generator, lookupVars, reportVars, result>>

\* The mean of no samples reported as 0 instead of raising.
MeanOfNothingIsZero ==
    /\ pc = "mean"
    /\ Len(depths) = 0
    /\ out' = Append(out, [num |-> 0, den |-> 1])
    /\ pc' = "done"
    /\ UNCHANGED <<wellFormed, num_games, final_fen, depths, aborted, err,
                   gameVars, move_generator, lookupVars, reportVars, result>>

\* print(sum(depths) / len(depths)) without samples: ZeroDivisionError,
\* which nothing catches
MeanDividesByZero ==
    /\ pc = "mean"
    /\ Len(depths) = 0
    /\ err' = "ZeroDivisionError"
    /\ pc' = "crashed"
    /\ UNCHANGED <<driverVars, gameVars, move_generator, lookupVars,
                   reportVars, result>>

----------------------------------------------------------------------------
(* run_game *)

\* run_game going on from the board the previous game left, as with a board
\* kept outside the function.
RunGameOnOldBoard ==
    /\ pc = "run_game"
    /\ board' = IF board = NoBoard THEN Board(final_fen) ELSE board
    /\ game_score' = <<>>
    /\ player_to_move' = InitialPlayerToMove(board'.turn)
    /\ player_move_generators' = InitialGenerators(board'.turn)
    /\ white_move' = BlankSan
    /\ move_generator' = NoGenerator
    /\ last_generator' = NoGenerator
    /\ budget_used' = FALSE
    /\ master_report' = <<>>
    /\ candidate_report' = <<>>
    /\ result' = NoResult
    /\ pc' = "get_move"
    /\ UNCHANGED <<driverVars, err, lookupVars>>

\* lines 109-119: the generators, the board, the score, who moves first
RunGame ==
    /\ pc = "run_game"
    /\ board' = Board(final_fen)
    /\ game_score' = <<>>
    /\ player_to_move' = InitialPlayerToMove(final_fen.turn)
    /\ player_move_generators' = InitialGenerators(final_fen.turn)
    /\ white_move' = BlankSan
    /\ move_generator' = NoGenerator
    /\ last_generator' = NoGenerator
    /\ budget_used' = FALSE
    /\ master_report' = <<>>
    /\ candidate_report' = <<>>
    /\ result' = NoResult
    /\ pc' = "get_move"
    /\ UNCHANGED <<driverVars, err, lookupVars>>

\* get_move without the master-book check: it starts with the lookup of
\* its own profile.
GetMoveWithoutGuard ==
    /\ pc = "get_move"
    /\ move_generator' = player_move_generators[player_to_move + 1]
    /\ last_generator' = move_generator
    /\ lookup' = "fetch"
    /\ request_generator' =
           player_move_generators[player_to_move + 1].db_request_generator
    /\ retries' = 0
    /\ requests' = 0
    /\ sleeps' = 0
    /\ last_response' = ""
    /\ master_report' = <<>>
    /\ candidate_report' = <<>>
    /\ result' = NoResult
    /\ pc' = "request"
    /\ UNCHANGED <<driverVars, err, board, game_score, white_move,
                   player_to_move, player_move_generators, budget_used>>

\* move_generator = player_move_generators[player_to_move];
\* move_generator.get_move(board) up to the first request of
\* out_of_master_book's get_db_moves(board, master_db_request)
GetMove ==
    /\ pc = "get_move"
    /\ move_generator' = player_move_generators[player_to_move + 1]
    /\ last_generator' = move_generator
    /\ lookup' = "guard"
    /\ request_generator' = "master_db_request"
    /\ retries' = 0
    /\ requests' = 0
    /\ sleeps' = 0
    /\ last_response' = ""
    /\ master_report' = <<>>
    /\ candidate_report' = <<>>
    /\ result' = NoResult
    /\ pc' = "request"
    /\ UNCHANGED <<driverVars, err, board, game_score, white_move,
                   player_to_move, player_move_generators, budget_used>>

\* board.pop(): the last move taken back.
Pop(b) ==
    IF b.move_stack = <<>> THEN b
    ELSE [turn |-> ~b.turn,
          fullmove_number |->
              IF b.turn = WHITE THEN b.fullmove_number - 1
              ELSE b.fullmove_number,
          move_stack |-> SubSeq(b.move_stack, 1, Len(b.move_stack) - 1)]

\* The except clause taking the last move back before it returns.
ReturnAfterPop ==
    /\ pc = "out_of_book"
    /\ err' = ""
    /\ board' = Pop(board)
    /\ pc' = "append"
    /\ UNCHANGED <<driverVars, game_score, white_move, player_to_move,
                   player_move_generators, last_generator, budget_used,
                   move_generator, lookupVars, reportVars, result>>

\* run_game without its except clause: OutOfBook reaches the driver.
PropagateOutOfBook ==
    /\ pc = "out_of_book"
    /\ pc' = "except"
    /\ UNCHANGED <<driverVars, err, gameVars, move_generator, lookupVars,
                   reportVars, result>>

\* The except clause going round the loop again instead of returning.
IgnoreOutOfBook ==
    /\ pc = "out_of_book"
    /\ err' = ""
    /\ pc' = "get_move"
    /\ UNCHANGED <<driverVars, gameVars, move_generator, lookupVars,
                   reportVars, result>>

\* except OutOfBook: return board, game_score
ReturnOutOfBook ==
    /\ pc = "out_of_book"
    /\ err' = ""
    /\ pc' = "append"
    /\ UNCHANGED <<driverVars, gameVars, move_generator, lookupVars,
                   reportVars, result>>

----------------------------------------------------------------------------
(* get_db_moves, and what its two callers do with the list it returns *)

\* The exception json.loads(...)["moves"] raises on a response without a
\* usable `moves` list.
ExceptionOf(kind) ==
    IF kind = "not_json" THEN "JSONDecodeError" ELSE "KeyError"

\* out_of_master_book's lookup returns: the counts are summed; below
\* min_count get_move raises OutOfBook, otherwise it goes on to line 25.
MasterBookAnswer ==
    /\ pc = "request"
    /\ lookup = "guard"
    /\ \E resp \in Responses :
        /\ resp.kind = "ok"
        /\ ClientMayAnswer(resp)
        /\ master_report' = <<TotalCount(resp.moves)>>
        /\ IF OutOfMasterBook(TotalCount(resp.moves))
           THEN /\ result' = Failed("OutOfBook")
                /\ err' = "OutOfBook"
                /\ pc' = "out_of_book"
           ELSE /\ pc' = "fetch"
                /\ UNCHANGED <<result, err>>
    /\ requests' = requests + 1
    /\ last_response' = "ok"
    /\ budget_used' = (budget_used \/ sleeps = MaxRetries)
    /\ UNCHANGED <<driverVars, board, game_score, white_move, player_to_move,
                   player_move_generators, last_generator, move_generator,
                   lookup, request_generator, retries, sleeps,
                   candidate_report>>

\* The candidate lookup going on with the retry counter of the master-book
\* lookup, as with a counter kept outside get_db_moves.
FetchCandidatesKeepingRetries ==
    /\ pc = "fetch"
    /\ lookup' = "fetch"
    /\ request_generator' = move_generator.db_request_generator
    /\ requests' = 0
    /\ sleeps' = 0
    /\ last_response' = ""
    /\ pc' = "request"
    /\ UNCHANGED <<driverVars, err, gameVars, move_generator, retries,
                   reportVars, result>>

\* explorer_moves = get_db_moves(board, self.db_request_generator), up to
\* its first request
FetchCandidates ==
    /\ pc = "fetch"
    /\ lookup' = "fetch"
    /\ request_generator' = move_generator.db_request_generator
    /\ retries' = 0
    /\ requests' = 0
    /\ sleeps' = 0
    /\ last_response' = ""
    /\ pc' = "request"
    /\ UNCHANGED <<driverVars, err, gameVars, move_generator, reportVars,
                   result>>

\* get_move's lookup returns: an empty list raises OutOfBook, otherwise
\* the selection strategy is next.
CandidatesAnswer ==
    /\ pc = "request"
    /\ lookup = "fetch"
    /\ \E resp \in Responses :
        /\ resp.kind = "ok"
        /\ ClientMayAnswer(resp)
        /\ candidate_report' = <<resp.moves>>
        /\ IF Len(resp.moves) = 0
           THEN /\ result' = Failed("OutOfBook")
                /\ err' = "OutOfBook"
                /\ pc' = "out_of_book"
           ELSE /\ pc' = "select"
                /\ UNCHANGED <<result, err>>
    /\ requests' = requests + 1
    /\ last_response' = "ok"
    /\ budget_used' = (budget_used \/ sleeps = MaxRetries)
    /\ UNCHANGED <<driverVars, board, game_score, white_move, player_to_move,
                   player_move_generators, last_generator, move_generator,
                   lookup, request_generator, retries, sleeps,
                   master_report>>

\* except json.decoder.JSONDecodeError with retries < 10: retries += 1,
\* then the sleep
Throttled ==
    /\ pc = "request"
    /\ \E resp \in Responses :
        /\ resp.kind # "ok"
        /\ ClientMayAnswer(resp)
        /\ IsJSONDecodeError(resp.kind)
        /\ last_response' = resp.kind
    /\ MayRetry(retries)
    /\ requests' = requests + 1
    /\ retries' = retries + 1
    /\ pc' = "sleep"
    /\ UNCHANGED <<driverVars, err, gameVars, move_generator, lookup,
                   request_generator, sleeps, reportVars, result>>

\* time.sleep(120), then the loop makes the request again
Sleep ==
    /\ pc = "sleep"
    /\ sleeps' = sleeps + 1
    /\ pc' = "request"
    /\ UNCHANGED <<driverVars, err, gameVars, move_generator, lookup,
                   request_generator, retries, requests, last_response,
                   reportVars, result>>

\* The exhausted retries reported as book exhaustion: raise OutOfBook().
ExhaustedBecomesOutOfBook ==
    /\ pc = "request"
    /\ \E resp \in Responses :
        /\ resp.kind # "ok"
        /\ ClientMayAnswer(resp)
        /\ IsJSONDecodeError(resp.kind)
        /\ last_response' = resp.kind
    /\ err' = "OutOfBook"
    /\ result' = Failed("OutOfBook")
    /\ ~MayRetry(retries)
    /\ requests' = requests + 1
    /\ pc' = "out_of_book"
    /\ UNCHANGED <<driverVars, gameVars, move_generator, lookup,
                   request_generator, retries, sleeps, reportVars>>

\* except json.decoder.JSONDecodeError with retries >= 10: raise e, which
\* neither get_move nor run_game catches
RetriesExhausted ==
    /\ pc = "request"
    /\ \E resp \in Responses :
        /\ resp.kind # "ok"
        /\ ClientMayAnswer(resp)
        /\ IsJSONDecodeError(resp.kind)
        /\ last_response' = resp.kind
        /\ err' = ExceptionOf(resp.kind)
        /\ result' = Failed(ExceptionOf(resp.kind))
    /\ ~MayRetry(retries)
    /\ requests' = requests + 1
    /\ pc' = "except"
    /\ UNCHANGED <<driverVars, gameVars, move_generator, lookup,
                   request_generator, retries, sleeps, reportVars>>

\* an exception of line 38 that the except clause does not name: it leaves
\* get_db_moves, get_move and run_game at once
Uncaught ==
    /\ pc = "request"
    /\ \E resp \in Responses :
        /\ resp.kind # "ok"
        /\ ClientMayAnswer(resp)
        /\ ~IsJSONDecodeError(resp.kind)
        /\ last_response' = resp.kind
        /\ err' = ExceptionOf(resp.kind)
        /\ result' = Failed(ExceptionOf(resp.kind))
    /\ requests' = requests + 1
    /\ pc' = "except"
    /\ UNCHANGED <<driverVars, gameVars, move_generator, lookup,
                   request_generator, retries, sleeps, reportVars>>

----------------------------------------------------------------------------
(* get_move lines 28-29 and run_game lines 124-129 *)

\* The strategy returns a candidate: the move is made from its uci, the
\* score or white_move is updated, the move is pushed and the other player
\* is to move.
PlayMove ==
    /\ pc = "select"
    /\ \E o \in Select(move_generator.selection_strategy, candidate_report[1]) :
        /\ o.raised = ""
        /\ LET move == FromUci(o.chosen.uci)
           IN  /\ result' = [kind |-> "move", move |-> move]
               /\ IF player_to_move = 1
                  THEN /\ game_score' =
                              Append(game_score,
                                     <<board.fullmove_number, white_move,
                                       San(board, move)>>)
                       /\ UNCHANGED white_move
                  ELSE /\ white_move' = San(board, move)
                       /\ UNCHANGED game_score
               /\ board' = Push(board, move)
    /\ player_to_move' = 1 - player_to_move
    /\ pc' = "get_move"
    /\ UNCHANGED <<driverVars, err, player_move_generators, move_generator,
                   last_generator, budget_used, lookupVars, reportVars>>

\* The strategy raises: the exception leaves get_move and run_game.
SelectionRaises ==
    /\ pc = "select"
    /\ \E o \in Select(move_generator.selection_strategy, candidate_report[1]) :
        /\ o.raised # ""
        /\ err' = o.raised
        /\ result' = Failed(o.raised)
    /\ pc' = "except"
    /\ UNCHANGED <<driverVars, gameVars, move_generator, lookupVars,
                   reportVars>>

----------------------------------------------------------------------------

Next ==
    \/ WhileTest
    \/ RunGame
    \/ GetMove
    \/ MasterBookAnswer
    \/ FetchCandidates
    \/ CandidatesAnswer
    \/ Throttled
    \/ Sleep
    \/ RetriesExhausted
    \/ Uncaught
    \/ PlayMove
    \/ SelectionRaises
    \/ ReturnOutOfBook
    \/ AppendDepth
    \/ ExceptBreak
    \/ PrintDepths
    \/ PrintMean
    \/ MeanDividesByZero

Spec == Init /\ [][Next]_vars

\* The single thread always takes its next step.
LiveSpec == Init /\ [][Next]_vars /\ WF_vars(Next)

----------------------------------------------------------------------------
(* Properties *)

\* run_game is between its first statement and its return or exception.
InGame == pc \in {"get_move", "request", "sleep", "fetch", "select",
                  "out_of_book"}

\* The candidate list holds a candidate whose uci makes this move.
InCandidates(move, exp_moves) ==
    \E i \in 1..Len(exp_moves) : FromUci(exp_moves[i].uci) = move

\* The get_move call has ended and every lookup it made returned a list.
GetMoveEndedOnReports ==
    /\ result.kind \notin {"none", "JSONDecodeError", "KeyError"}
    /\ master_report # <<>>

\* C1: a get_move call whose lookups returned ends with a move of the
\* candidate list when the master database reported at least 5 games and
\* the candidate list is not empty, and with OutOfBook and no move in every
\* other case.
C1_GetMoveContract ==
    GetMoveEndedOnReports =>
        IF /\ master_report[1] >= 5
           /\ candidate_report # <<>>
           /\ Len(candidate_report[1]) > 0
        THEN /\ result.kind = "move"
             /\ InCandidates(result.move, candidate_report[1])
        ELSE /\ result.kind = "OutOfBook"
             /\ result.move = NoMove

\* C2: within one get_db_moves call every unparseable response among the
\* first 10 is followed by exactly one sleep and a retry of the same query,
\* and the call that fails has made exactly 11 requests and 10 sleeps; no
\* call makes a 12th request.
C2_ElevenRequestsTenSleeps ==
    /\ [](requests <= 11 /\ sleeps <= 10)
    /\ [](result.kind = "JSONDecodeError" => requests = 11 /\ sleeps = 10)
    /\ [](pc = "sleep" => requests = sleeps + 1 /\ last_response = "not_json")
    /\ [][pc = "sleep" =>
              /\ pc' = "request"
              /\ sleeps' = sleeps + 1
              /\ requests' = requests
              /\ request_generator' = request_generator
              /\ board' = board]_vars

\* C2 witness: a call has failed after 11 requests and 10 sleeps.
C2_Witness ==
    /\ result.kind = "JSONDecodeError"
    /\ requests = 11
    /\ sleeps = 10

\* A step in which a request is answered by a response without a usable
\* `moves` list.
UnparseableAnswered ==
    /\ pc = "request"
    /\ requests' = requests + 1
    /\ last_response' \in {"not_json", "no_moves"}

\* C3 as stated: every response that does not parse as a structure with a
\* `moves` list, a JSON body without `moves` included, is retried after the
\* backoff while retries are left and is not propagated at once.
C3_EveryUnparseableRetried ==
    [][(UnparseableAnswered /\ retries < 10) =>
           (pc' = "sleep" /\ err' = err)]_vars

\* C3 amended: a body that is not JSON is retried after the backoff while
\* fewer than 10 retries were made and is propagated as JSONDecodeError
\* after that; a JSON body without `moves` is propagated at once as
\* KeyError, with no retry and no sleep.
C3_OnlyNonJsonRetried ==
    [][UnparseableAnswered =>
           IF last_response' = "not_json"
           THEN IF retries < 10
                THEN pc' = "sleep" /\ retries' = retries + 1 /\ err' = err
                ELSE pc' = "except" /\ err' = "JSONDecodeError"
           ELSE /\ pc' = "except"
                /\ err' = "KeyError"
                /\ retries' = retries
                /\ sleeps' = sleeps]_vars

\* C3 witness: a JSON body without `moves` ended a lookup that had already
\* retried a body that was not JSON.
C3_Witness ==
    /\ pc = "except"
    /\ err = "KeyError"
    /\ last_response = "no_moves"
    /\ sleeps >= 1
    /\ sleeps < 10

\* C4: in every state of a game the generator bound to the side that was
\* to move in the starting position is the rated-player generator and the
\* one bound to the other side is the master generator; the generator
\* invoked is the one of the side to move, and it is never the one that
\* was invoked before it.
C4_GeneratorsAlternate ==
    InGame =>
        /\ \A side \in {WHITE, BLACK} :
               player_move_generators[IF side = WHITE THEN 1 ELSE 2] =
                   IF side = final_fen.turn THEN lichess_move_generator
                   ELSE book_move_generator
        /\ pc # "get_move" =>
               /\ move_generator =
                      IF board.turn = final_fen.turn
                      THEN lichess_move_generator ELSE book_move_generator
               /\ move_generator # last_generator
               /\ last_generator = NoGenerator <=> board.move_stack = <<>>
        /\ pc = "get_move" =>
               (move_generator = NoGenerator <=> board.move_stack = <<>>)

\* C4 witness: in a game that started with Black to move a generator is
\* invoked for the third time.
C4_Witness ==
    /\ pc = "request"
    /\ final_fen.turn = BLACK
    /\ Len(board.move_stack) = 2
    /\ move_generator = lichess_move_generator
    /\ last_generator = book_move_generator

\* C5: run_game returns a result only from its OutOfBook handler, and then
\* it returns the position as it is; a get_move that returns a move is
\* followed by the move applied, the other player to move and the loop
\* going on; OutOfBook never reaches the driver's except clause.
C5_OutOfBookEndsGame ==
    /\ [][pc' = "append" => pc = "out_of_book"]_vars
    /\ [][pc = "out_of_book" =>
              /\ pc' = "append"
              /\ err' = ""
              /\ board' = board
              /\ game_score' = game_score]_vars
    /\ [][(result.kind = "none" /\ result'.kind = "move") =>
              /\ board'.move_stack = Append(board.move_stack, result'.move)
              /\ board'.turn # board.turn
              /\ player_to_move' = 1 - player_to_move
              /\ pc' = "get_move"]_vars
    /\ [](err = "OutOfBook" <=> pc = "out_of_book")
    /\ [](pc = "out_of_book" => result.kind = "OutOfBook")

\* C5 witness: a game has returned after at least one move was applied.
C5_Witness ==
    /\ pc = "append"
    /\ result.kind = "OutOfBook"
    /\ Len(board.move_stack) >= 1

\* C6: with a well-formed database client and a finite book, every game
\* that is started returns from its OutOfBook handler.
C6_RunGameTerminates == (wellFormed /\ pc = "run_game") ~> (pc = "append")

\* C6 witness: with a well-formed client a game has returned after the book
\* ran out at its deepest position.
C6_Witness ==
    /\ wellFormed
    /\ pc = "append"
    /\ Len(board.move_stack) = MaxPly

----------------------------------------------------------------------------
(* The selection step on its own: get_move has reached line 28 for the     *)
(* first move of a game with the list explorer_moves its lookup returned.  *)

\* The longest candidate list tried.
PickMaxLen == 3

\* The white, black and draws counts a candidate may carry.
CountTriples == {<<0, 0, 0>>, <<1, 0, 0>>, <<0, 1, 1>>, <<2, 1, 0>>}

\* The uci of the candidate at index i: a pawn's double step on file i.
PickUci(i) == <<FILE_NAMES[i], "2", FILE_NAMES[i], "4">>

\* Every candidate list of 1..PickMaxLen candidates with these counts.
PickLists ==
    UNION { { [i \in 1..n |-> Cand(PickUci(i), t[i][1], t[i][2], t[i][3])] :
                  t \in [1..n -> CountTriples] } :
            n \in 1..PickMaxLen }

PickInit ==
    /\ pc = "select"
    /\ wellFormed = FALSE
    /\ num_games = 1
    /\ final_fen \in StartFens
    /\ depths = <<>>
    /\ out = <<>>
    /\ err = ""
    /\ aborted = FALSE
    /\ board = Board(final_fen)
    /\ game_score = <<>>
    /\ white_move = BlankSan
    /\ player_to_move = InitialPlayerToMove(final_fen.turn)
    /\ player_move_generators = InitialGenerators(final_fen.turn)
    /\ move_generator = lichess_move_generator
    /\ last_generator = NoGenerator
    /\ budget_used = FALSE
    /\ lookup = "fetch"
    /\ request_generator = "LichessDbRequest"
    /\ retries = 0
    /\ requests = 1
    /\ sleeps = 0
    /\ last_response = "ok"
    /\ master_report = <<min_count>>
    /\ candidate_report \in {<<l>> : l \in PickLists}
    /\ result = NoResult

PickNext ==
    \/ PlayMove
    \/ SelectionRaises

PickSpec == PickInit /\ [][PickNext]_vars

\* C12: when some candidate of the list has a positive total count, the
\* candidate pick_random returns has a positive total count.
C12_PickRandomSkipsZeroWeight ==
    ( /\ result.kind = "move"
      /\ move_generator.selection_strategy = "pick_random"
      /\ \E i \in 1..Len(candidate_report[1]) :
             LET c == candidate_report[1][i]
             IN  c.white + c.black + c.draws > 0 )
        => \A i \in 1..Len(candidate_report[1]) :
               LET c == candidate_report[1][i]
               IN  FromUci(c.uci) = result.move
                       => c.white + c.black + c.draws > 0

\* C12 witness: pick_random returned the second of three candidates, the
\* only one with a positive total count.
C12_Witness ==
    /\ result.kind = "move"
    /\ move_generator.selection_strategy = "pick_random"
    /\ Len(candidate_report[1]) = 3
    /\ MoveCount(candidate_report[1][1]) = 0
    /\ MoveCount(candidate_report[1][2]) > 0
    /\ MoveCount(candidate_report[1][3]) = 0
    /\ result.move = FromUci(candidate_report[1][2].uci)

\* The number of moves of the stack that Black made.
BlackMoves(fen, b) ==
    IF fen.turn = BLACK THEN (Len(b.move_stack) + 1) \div 2
    ELSE Len(b.move_stack) \div 2

\* C7: the depth recorded for a game is the final position's full-move
\* number minus one, which is the starting position's full-move number
\* minus one plus the number of Black moves applied: a White move that
\* Black did not answer adds nothing.
C7_DepthIsFullMovesCompleted ==
    (pc = "while" /\ depths # <<>>) =>
        LET d == depths[Len(depths)]
        IN  /\ d = board.fullmove_number - 1
            /\ d = final_fen.fullmove_number - 1 + BlackMoves(final_fen, board)
            /\ d = final_fen.fullmove_number - 1 + Len(game_score)

\* C7 witness: a depth was recorded for a game in which White played a book
\* move that Black did not answer.
C7_Witness ==
    /\ pc = "while"
    /\ depths # <<>>
    /\ final_fen.turn = WHITE
    /\ Len(board.move_stack) = 1

\* C8: a game that fails with an error appends no sample, the handler goes
\* to the report step, and after it no game is started and the samples stay
\* as they are.
C8_ErrorAbortsLoop ==
    /\ [][(pc' = "except" \/ pc = "except" \/ aborted) =>
              /\ depths' = depths
              /\ pc' \notin {"while", "run_game", "append"}
              /\ ~InGame']_vars
    /\ [][pc = "except" => (pc' = "report" /\ aborted')]_vars
    /\ [](pc = "except" => err \notin {"", "OutOfBook"})

\* C8 witness: the loop was aborted with a sample already collected and the
\* target not reached.
C8_Witness ==
    /\ pc = "report"
    /\ aborted
    /\ Len(depths) = 1
    /\ num_games = 2

\* C9: once the loop has ended the list is printed; with at least one
\* sample the mean is printed next and the driver ends, with none the mean
\* raises ZeroDivisionError and the driver ends in that error.
C9_ReportOrDivideByZero ==
    /\ [](pc = "mean" => out = <<depths>>)
    /\ [](pc = "done" =>
              /\ Len(depths) >= 1
              /\ Len(out) = 2
              /\ out[1] = depths
              /\ out[2].num * Len(depths) = Sum(depths) * out[2].den)
    /\ [](pc = "crashed" =>
              /\ Len(depths) = 0
              /\ out = << <<>> >>
              /\ err = "ZeroDivisionError")
    /\ [][pc = "mean" =>
              pc' = IF Len(depths) >= 1 THEN "done" ELSE "crashed"]_vars

\* C9 witness: the first game failed and the driver ended in the division
\* by zero.
C9_Witness ==
    /\ pc = "crashed"
    /\ aborted
    /\ num_games >= 1

\* C10: the samples change only by one depth being appended when a game has
\* returned; with a target that is not negative the count never exceeds it,
\* and the loop has ended without error exactly when the count equals it.
C10_SamplesOnlyAppended ==
    /\ [][\/ depths' = depths
          \/ /\ pc = "append"
             /\ Len(depths') = Len(depths) + 1
             /\ SubSeq(depths', 1, Len(depths)) = depths]_vars
    /\ [][pc = "append" => Len(depths') = Len(depths) + 1]_vars
    /\ [](num_games >= 0 => Len(depths) <= num_games)
    /\ []((num_games >= 0 /\ pc \in {"report", "mean", "done", "crashed"})
              => (~aborted <=> Len(depths) = num_games))

\* C10 witness: the loop ended without error with two samples.
C10_Witness ==
    /\ pc = "report"
    /\ ~aborted
    /\ Len(depths) = 2
    /\ num_games = 2


\* C11: a get_move call starts with the lookup of the master book; the
\* lookup of its own profile starts only from the master-book lookup that
\* reported at least 5 games, and never after one that reported fewer, so a
\* call makes the two lookups in this order and no third.
C11_GuardBeforeFetch ==
    /\ []((InGame /\ pc # "get_move") =>
              /\ lookup \in {"guard", "fetch"}
              /\ lookup = "guard" =>
                     /\ request_generator = "master_db_request"
                     /\ candidate_report = <<>>
              /\ lookup = "fetch" =>
                     /\ master_report # <<>>
                     /\ master_report[1] >= 5
                     /\ request_generator = move_generator.db_request_generator
              /\ (master_report # <<>> /\ master_report[1] < 5) =>
                     /\ lookup = "guard"
                     /\ result.kind = "OutOfBook")
    /\ [][lookup' # lookup =>
              \/ pc = "get_move" /\ lookup' = "guard"
              \/ pc = "fetch" /\ lookup = "guard" /\ lookup' = "fetch"]_vars
    /\ [][(requests' = 0 /\ pc' = "request") => pc \in {"get_move", "fetch"}]_vars

\* C11 witness: the rated-player generator's call ended on the master-book
\* lookup, its own lookup never made, in a position the master database
\* still has games for.
C11_Witness ==
    /\ pc = "out_of_book"
    /\ move_generator = lichess_move_generator
    /\ lookup = "guard"
    /\ master_report # <<>>
    /\ master_report[1] > 0
    /\ candidate_report = <<>>


\* C13: a move returned by the generator whose strategy is pick_top is the
\* move of the first candidate of the list its lookup returned, and that
\* generator is the master one, whose list comes from the master endpoint.
C13_PickTopPlaysFirst ==
    (result.kind = "move" /\ move_generator.selection_strategy = "pick_top")
        => /\ move_generator = book_move_generator
           /\ request_generator = "master_db_request"
           /\ result.move = FromUci(candidate_report[1][1].uci)

\* C13 witness: the master generator played the first of two candidates,
\* which is not the one with the most games.
C13_Witness ==
    /\ result.kind = "move"
    /\ move_generator = book_move_generator
    /\ Len(candidate_report[1]) = 2
    /\ MoveCount(candidate_report[1][1]) < MoveCount(candidate_report[1][2])
    /\ result.move = FromUci(candidate_report[1][1].uci)
    /\ result.move # FromUci(candidate_report[1][2].uci)


\* C14: every game the driver starts begins on the starting position, with
\* no move pushed, an empty score, the side to move of the starting
\* position and the generators bound from it, whatever the game before
\* left; the starting position never changes.
C14_EveryGameStartsAfresh ==
    /\ [][pc = "run_game" =>
              /\ pc' = "get_move"
              /\ board'.turn = final_fen.turn
              /\ board'.fullmove_number = final_fen.fullmove_number
              /\ board'.move_stack = <<>>
              /\ game_score' = <<>>
              /\ white_move' = BlankSan
              /\ player_to_move' = (IF final_fen.turn = WHITE THEN 0 ELSE 1)
              /\ player_move_generators'[player_to_move' + 1] =
                     lichess_move_generator
              /\ player_move_generators'[2 - player_to_move'] =
                     book_move_generator
              /\ move_generator' = NoGenerator]_vars
    /\ [][final_fen' = final_fen]_vars
    /\ [][pc' = "run_game" => pc = "while"]_vars

\* C14 witness: a second game has started afresh after a first game in
\* which both sides, or Black, played book moves.
C14_Witness ==
    /\ pc = "get_move"
    /\ Len(depths) = 1
    /\ depths[1] > final_fen.fullmove_number - 1
    /\ board.move_stack = <<>>
    /\ board.fullmove_number = final_fen.fullmove_number
    /\ move_generator = NoGenerator


\* C15: the unparseable response that finds the retries used up, in the
\* master-book lookup or in the candidate lookup, sends the JSONDecodeError
\* to the driver's except clause: the call does not end in OutOfBook, the
\* game returns nothing and no depth is recorded for it.
C15_ThrottleErrorPassesThrough ==
    /\ [][( /\ pc = "request"
            /\ requests' = requests + 1
            /\ last_response' = "not_json"
            /\ retries = 10 ) =>
              /\ pc' = "except"
              /\ err' = "JSONDecodeError"
              /\ result'.kind = "JSONDecodeError"
              /\ depths' = depths]_vars
    /\ [](err = "JSONDecodeError" =>
              /\ pc \in {"except", "report", "mean", "done"}
              /\ result.kind = "JSONDecodeError")
    /\ [](result.kind = "JSONDecodeError" =>
              /\ pc \in {"except", "report", "mean", "done", "crashed"}
              /\ (pc # "crashed" => err = "JSONDecodeError"))
    /\ [][result.kind = "JSONDecodeError" =>
              (depths' = depths /\ result' = result)]_vars

\* C15 witness: the candidate lookup of a second game ran out of retries;
\* the driver is at its report with the first game's depth alone.
C15_Witness ==
    /\ pc = "report"
    /\ err = "JSONDecodeError"
    /\ lookup = "fetch"
    /\ requests = 11
    /\ Len(depths) = 1
    /\ num_games = 2


\* C16: a lookup that receives a parseable response after k unparseable
\* ones returns on it after exactly k sleeps and k + 1 requests, k <= 10;
\* every lookup starts with retries = 0, whatever the lookups before it
\* used, and is then allowed 10 retries of its own.
C16_RetriesPerLookup ==
    /\ [](last_response = "ok" =>
              /\ sleeps = retries
              /\ requests = sleeps + 1
              /\ sleeps <= 10)
    /\ [][(pc = "request" /\ last_response' = "ok") =>
              /\ sleeps' = sleeps
              /\ retries' = retries
              /\ requests' = requests + 1
              /\ pc' \in {"fetch", "select", "out_of_book"}]_vars
    /\ [][(pc = "get_move" \/ pc = "fetch") =>
              /\ retries' = 0
              /\ sleeps' = 0
              /\ requests' = 0
              /\ pc' = "request"]_vars
    /\ [][(pc = "request" /\ last_response' = "not_json" /\ retries < 10) =>
              (pc' = "sleep" /\ retries' = retries + 1)]_vars

\* C16 witness: in a game in which an earlier lookup returned after 10
\* sleeps, a later lookup has returned after 2 more: 12 sleeps in one game.
C16_Witness ==
    /\ InGame
    /\ budget_used
    /\ last_response = "ok"
    /\ lookup = "fetch"
    /\ sleeps = 2
    /\ requests = 3


\* C17: in every state of a game player_to_move is 0 exactly when White is
\* to move and 1 exactly when Black is; the score gets a line exactly in
\* the steps that apply a move of Black, one line, and no step that applies
\* a move of White changes it.
C17_IndexFollowsColour ==
    /\ [](InGame =>
              /\ player_to_move \in {0, 1}
              /\ player_to_move = 0 <=> board.turn = WHITE
              /\ player_to_move = 1 <=> board.turn = BLACK)
    /\ [][(InGame /\ game_score' # game_score) =>
              /\ board.turn = BLACK
              /\ board'.move_stack # board.move_stack
              /\ Len(game_score') = Len(game_score) + 1
              /\ SubSeq(game_score', 1, Len(game_score)) = game_score
              /\ game_score'[Len(game_score')][1] = board.fullmove_number
              /\ game_score'[Len(game_score')][2] = white_move]_vars
    /\ [][(InGame /\ board'.move_stack # board.move_stack) =>
              IF board.turn = BLACK
              THEN Len(game_score') = Len(game_score) + 1
              ELSE game_score' = game_score /\ white_move' # BlankSan]_vars

\* C17 witness: a game that started with Black to move has applied Black's
\* move and appended its line, with no move of White before it.
C17_Witness ==
    /\ InGame
    /\ final_fen.turn = BLACK
    /\ Len(board.move_stack) = 1
    /\ player_to_move = 0
    /\ Len(game_score) = 1
    /\ game_score[1][2] = BlankSan


\* C18: every step of a game other than the one in which get_move returns
\* a move (the requests, the sleeps, the raising of OutOfBook or of an
\* error, the return of run_game) leaves the position, the side to move,
\* the score and white_move as they are; so does the driver's append, which
\* reads the position on which OutOfBook was raised.
C18_FailureLeavesPosition ==
    /\ [][(InGame /\ ~(pc = "select" /\ result'.kind = "move")) =>
              /\ board' = board
              /\ player_to_move' = player_to_move
              /\ game_score' = game_score
              /\ white_move' = white_move]_vars
    /\ [][pc \notin {"run_game", "select"} => board' = board]_vars
    /\ [](pc = "append" =>
              /\ result.kind = "OutOfBook"
              /\ result.move = NoMove
              /\ player_to_move = (IF board.turn = WHITE THEN 0 ELSE 1))

\* C18 witness: a game has returned the position reached after at least
\* one move, on which OutOfBook was raised by a lookup that had retried.
C18_Witness ==
    /\ pc = "append"
    /\ result.kind = "OutOfBook"
    /\ Len(board.move_stack) >= 1
    /\ sleeps >= 1

====
